---- MODULE Spec2Model ----
(***************************************************************************)
(* A model of remove-json-comments.py: the JSONC to JSON converter.        *)
(*                                                                         *)
(* Text is a sequence of one-character strings.  The three re.sub calls,   *)
(* json.loads, json.dump and str.rsplit are operators that compute what    *)
(* the library calls compute on the characters the model draws its inputs  *)
(* from; the script itself is a state machine with one action per          *)
(* statement, run as a process on a small file system.                     *)
(***************************************************************************)
EXTENDS Integers, Sequences, FiniteSets, TLC

VARIABLES
    pc,           \* the statement the process is at
    sys_argv,     \* sys.argv: the script's name, then the arguments
    fs,           \* the file system: path -> content, for the files that exist
    handles,      \* the file objects that are open: [path, mode]
    input_path,   \* convert_jsonc_to_json's parameter
    output_path,  \* its local of line 7
    content,      \* its local of lines 10-19
    data,         \* its local of line 23: the value json.loads returned
    exc,          \* e of line 29: the JSONDecodeError caught
    stdout,       \* what the process has printed
    exit_code,    \* the exit status, Running until the process ends
    writes,       \* the paths this process has opened for writing, in order
    calls,        \* the arguments convert_jsonc_to_json was called with, in order
    run           \* the number of the invocation (1 for the first)

vars == <<pc, sys_argv, fs, handles, input_path, output_path, content, data, exc,
          stdout, exit_code, writes, calls, run>>

----------------------------------------------------------------------------
(* Bounds of the model.                                                    *)

MaxFrags == 3      \* fragments of an input document (Spec)
MaxBlockLen == 6   \* characters of an input text (SpecBlock)
MaxLineLen == 7    \* characters of an input text (SpecLine)
MaxCommaLen == 5   \* characters of an input text (SpecComma)
MaxStringLen == 5  \* characters of an input text (SpecString)
MaxPathLen == 5    \* characters of an input path (SpecPath)
MaxRuns == 2       \* invocations in a row: each next one runs on the last one's output

----------------------------------------------------------------------------
(* Characters and sequences.                                               *)

NL == "\n"
SP == " "
QT == "\""
BS == "\\"

\* a name that is not bound yet: a path or text, a value, an exception
None == <<"None">>
NoData == [k |-> "none", v |-> <<>>]
NoError == [ok |-> FALSE, msg |-> "none", pos |-> 0]

\* the exit status of a process that has not ended
Running == -1

Min(S) == CHOOSE x \in S : \A y \in S : x <= y
Max(S) == CHOOSE x \in S : \A y \in S : x >= y

Strings(A, n) == UNION {[1..k -> A] : k \in 0..n}

Slice(s, i, j) == IF i > j THEN <<>> ELSE SubSeq(s, i, j)

\* s[i..] starts with t
StartsWithAt(s, i, t) ==
    /\ i + Len(t) - 1 <= Len(s)
    /\ \A k \in 1..Len(t) : s[i + k - 1] = t[k]

----------------------------------------------------------------------------
(* re.sub: the matches are found left to right, a match is replaced and    *)
(* the scan goes on after its end; every other character is copied.  A     *)
(* pattern's ...MatchEnd(s, i) is the last position of its match starting  *)
(* at i, 0 when it does not match there (no pattern here matches the empty *)
(* string).                                                                *)

\* the pattern written r'/\*.*\*/': greedy, to the last "*/"
BlockMatchEndGreedy(s, i) ==
    IF StartsWithAt(s, i, <<"/", "*">>)
    THEN LET J == {j \in (i + 2)..(Len(s) - 1) : s[j] = "*" /\ s[j + 1] = "/"}
         IN IF J = {} THEN 0 ELSE Max(J) + 1
    ELSE 0

\* r'/\*.*?\*/' with re.DOTALL: "/*", the fewest characters of any kind, "*/"
BlockMatchEnd(s, i) ==
    IF StartsWithAt(s, i, <<"/", "*">>)
    THEN LET J == {j \in (i + 2)..(Len(s) - 1) : s[j] = "*" /\ s[j + 1] = "/"}
         IN IF J = {} THEN 0 ELSE Min(J) + 1
    ELSE 0

\* r'//.*': "//", then the most characters other than a newline
LineMatchEnd(s, i) ==
    IF StartsWithAt(s, i, <<"/", "/">>)
    THEN LET N == {j \in (i + 2)..Len(s) : s[j] = NL}
         IN IF N = {} THEN Len(s) ELSE Min(N) - 1
    ELSE 0

\* \s of a str pattern, over the characters of the model
IsSpace(c) == c \in {SP, NL, "\t", "\r", "\f"}

IsCloser(c) == c \in {"]", "}"}

\* the pattern written r',([\]}])': no whitespace between comma and closer
CommaMatchEndNoSpace(s, i) ==
    IF i < Len(s) /\ s[i] = "," /\ IsCloser(s[i + 1]) THEN i + 1 ELSE 0

\* r',\s*([\]}])': a comma, the most whitespace, then "]" or "}" (group 1)
CommaMatchEnd(s, i) ==
    IF i <= Len(s) /\ s[i] = ","
    THEN LET N == {j \in (i + 1)..Len(s) : ~IsSpace(s[j])}
         IN IF N # {} /\ IsCloser(s[Min(N)]) THEN Min(N) ELSE 0
    ELSE 0

\* the three patterns of lines 13, 16 and 19
MatchEnd(pattern, s, i) ==
    CASE pattern = "block" -> BlockMatchEnd(s, i)
      [] pattern = "line"  -> LineMatchEnd(s, i)
      [] pattern = "comma" -> CommaMatchEnd(s, i)

\* their replacements: '' (lines 13, 16) and r'\1', the closing character
\* the match ended with (line 19)
Repl(pattern, s, i, e) == IF pattern = "comma" THEN <<s[e]>> ELSE <<>>

RECURSIVE re_sub(_, _, _)
re_sub(pattern, s, i) ==
    IF i > Len(s) THEN <<>>
    ELSE LET e == MatchEnd(pattern, s, i) IN
         IF e # 0 THEN Repl(pattern, s, i, e) \o re_sub(pattern, s, e + 1)
         ELSE <<s[i]>> \o re_sub(pattern, s, i + 1)

RemoveBlockComments(s) == re_sub("block", s, 1)
RemoveLineComments(s) == re_sub("line", s, 1)
RemoveTrailingCommas(s) == re_sub("comma", s, 1)

\* lines 13-19: the text handed to json.loads
Clean(s) == RemoveTrailingCommas(RemoveLineComments(RemoveBlockComments(s)))

----------------------------------------------------------------------------
(* json.loads.  A value is [k, v]: k its kind, v a sequence (a number's    *)
(* digits, a string's characters, an array's values, an object's           *)
(* <<key, value>> pairs in insertion order, a constant's name).  A parse    *)
(* returns Ok(value, next position) or Err(message, position); positions   *)
(* are 1-based.  The texts of the model hold no ".", "e", "E" or "u", so    *)
(* a number is its integer part and a string has no \uXXXX escape.         *)

VNum(d) == [k |-> "num", v |-> d]
VStr(cs) == [k |-> "str", v |-> cs]
VArr(vs) == [k |-> "arr", v |-> vs]
VObj(ps) == [k |-> "obj", v |-> ps]
VConst(n) == [k |-> "const", v |-> n]

Ok(v, e) == [ok |-> TRUE, val |-> v, end |-> e]
Err(m, p) == [ok |-> FALSE, msg |-> m, pos |-> p]

\* json.decoder.WHITESPACE
WS == {SP, "\t", NL, "\r"}

RECURSIVE SkipWs(_, _)
SkipWs(s, i) == IF i <= Len(s) /\ s[i] \in WS THEN SkipWs(s, i + 1) ELSE i

\* s[i:i+1], "" past the end
CharAt(s, i) == IF i >= 1 /\ i <= Len(s) THEN s[i] ELSE ""

\* the characters below 0x20 among the model's
ControlChars == {NL, "\t", "\r", "\f"}

\* json.decoder.BACKSLASH, over the characters of the model
BACKSLASH ==
    [c \in {QT, BS, "/", "n", "r", "t", "f"} |->
        CASE c = "n" -> NL [] c = "r" -> "\r" [] c = "t" -> "\t"
          [] c = "f" -> "\f" [] OTHER -> c]

\* json.decoder.py_scanstring, strict: i is the position after the opening
\* quote at begin, acc the characters decoded so far
RECURSIVE py_scanstring(_, _, _, _)
py_scanstring(s, i, begin, acc) ==
    IF i > Len(s) THEN Err("Unterminated string starting at", begin)
    ELSE IF s[i] = QT THEN Ok(acc, i + 1)
    ELSE IF s[i] \in ControlChars THEN Err("Invalid control character at", i)
    ELSE IF s[i] = BS THEN
        IF i + 1 > Len(s) THEN Err("Unterminated string starting at", begin)
        ELSE IF s[i + 1] \in DOMAIN BACKSLASH
             THEN py_scanstring(s, i + 2, begin, Append(acc, BACKSLASH[s[i + 1]]))
             ELSE Err("Invalid \\escape", i)
    ELSE py_scanstring(s, i + 1, begin, Append(acc, s[i]))

Digits == {"0", "1", "2", "3", "4", "5", "6", "7", "8", "9"}

RECURSIVE DigitsEnd(_, _)
DigitsEnd(s, i) == IF i <= Len(s) /\ s[i] \in Digits THEN DigitsEnd(s, i + 1) ELSE i

\* json.scanner.NUMBER_RE, integer part: -?(?:0|[1-9][0-9]*).  The position
\* after the match at i, 0 when there is none.
NumberEnd(s, i) ==
    LET j == IF CharAt(s, i) = "-" THEN i + 1 ELSE i IN
    IF CharAt(s, j) = "0" THEN j + 1
    ELSE IF CharAt(s, j) \in Digits THEN DigitsEnd(s, j)
    ELSE 0

\* str(int(text)): the text itself, but for "-0"
IntOf(d) == IF d = <<"-", "0">> THEN <<"0">> ELSE d

\* dict(pairs): a repeated key keeps its first place and takes the last value
RECURSIVE DictOf(_, _)
DictOf(pairs, acc) ==
    IF pairs = <<>> THEN acc
    ELSE LET p == Head(pairs)
             I == {n \in 1..Len(acc) : acc[n][1] = p[1]}
         IN DictOf(Tail(pairs),
                   IF I = {} THEN Append(acc, p)
                   ELSE [acc EXCEPT ![Min(I)] = p])

\* json.scanner.py_make_scanner's _scan_once, JSONArray and JSONObject.
\* lenient = TRUE is json.loads as line 23 calls it, which also takes NaN,
\* Infinity and -Infinity; lenient = FALSE is the JSON grammar.
RECURSIVE scan_once(_, _, _), ArrayItems(_, _, _, _), ObjectItems(_, _, _, _)
scan_once(s, i, lenient) ==
    LET c == CharAt(s, i) IN
    IF c = QT THEN
        LET r == py_scanstring(s, i + 1, i, <<>>) IN
        IF r.ok THEN Ok(VStr(r.val), r.end) ELSE r
    ELSE IF c = "{" THEN
        LET j == SkipWs(s, i + 1) IN
        IF CharAt(s, j) = "}" THEN Ok(VObj(<<>>), j + 1)
        ELSE IF CharAt(s, j) # QT
             THEN Err("Expecting property name enclosed in double quotes", j)
             ELSE ObjectItems(s, j + 1, <<>>, lenient)
    ELSE IF c = "[" THEN
        LET j == SkipWs(s, i + 1) IN
        IF CharAt(s, j) = "]" THEN Ok(VArr(<<>>), j + 1)
        ELSE ArrayItems(s, j, <<>>, lenient)
    ELSE IF StartsWithAt(s, i, <<"n", "u", "l", "l">>) THEN Ok(VConst("null"), i + 4)
    ELSE IF StartsWithAt(s, i, <<"t", "r", "u", "e">>) THEN Ok(VConst("true"), i + 4)
    ELSE IF StartsWithAt(s, i, <<"f", "a", "l", "s", "e">>) THEN Ok(VConst("false"), i + 5)
    ELSE IF NumberEnd(s, i) # 0
         THEN Ok(VNum(IntOf(Slice(s, i, NumberEnd(s, i) - 1))), NumberEnd(s, i))
    ELSE IF lenient /\ StartsWithAt(s, i, <<"N", "a", "N">>)
         THEN Ok(VConst("NaN"), i + 3)
    ELSE IF lenient /\ StartsWithAt(s, i, <<"I", "n", "f", "i", "n", "i", "t", "y">>)
         THEN Ok(VConst("Infinity"), i + 8)
    ELSE IF lenient /\ StartsWithAt(s, i, <<"-", "I", "n", "f", "i", "n", "i", "t", "y">>)
         THEN Ok(VConst("-Infinity"), i + 9)
    ELSE Err("Expecting value", i)

\* JSONArray's loop: i is where the next value starts
ArrayItems(s, i, values, lenient) ==
    LET r == scan_once(s, i, lenient) IN
    IF ~r.ok THEN r
    ELSE LET j == SkipWs(s, r.end) IN
         IF CharAt(s, j) = "]" THEN Ok(VArr(Append(values, r.val)), j + 1)
         ELSE IF CharAt(s, j) # "," THEN Err("Expecting ',' delimiter", j)
         ELSE ArrayItems(s, SkipWs(s, j + 1), Append(values, r.val), lenient)

\* JSONObject's loop: i is the position after a key's opening quote
ObjectItems(s, i, pairs, lenient) ==
    LET key == py_scanstring(s, i, i - 1, <<>>) IN
    IF ~key.ok THEN key
    ELSE LET c == SkipWs(s, key.end) IN
         IF CharAt(s, c) # ":" THEN Err("Expecting ':' delimiter", c)
         ELSE LET r == scan_once(s, SkipWs(s, c + 1), lenient) IN
              IF ~r.ok THEN r
              ELSE LET j == SkipWs(s, r.end)
                       ps == Append(pairs, <<key.val, r.val>>)
                   IN IF CharAt(s, j) = "}" THEN Ok(VObj(DictOf(ps, <<>>)), j + 1)
                      ELSE IF CharAt(s, j) # "," THEN Err("Expecting ',' delimiter", j)
                      ELSE LET n == SkipWs(s, j + 1) IN
                           IF CharAt(s, n) # QT
                           THEN Err("Expecting property name enclosed in double quotes", n)
                           ELSE ObjectItems(s, n + 1, ps, lenient)

\* JSONDecoder.decode: one value, whitespace around it, nothing after
decode(s, lenient) ==
    LET r == scan_once(s, SkipWs(s, 1), lenient) IN
    IF ~r.ok THEN r
    ELSE LET e == SkipWs(s, r.end) IN
         IF e <= Len(s) THEN Err("Extra data", e) ELSE Ok(r.val, e)

\* json.loads(content) of line 23
json_loads(s) == decode(s, TRUE)

----------------------------------------------------------------------------
(* json.dump(data, f, indent=4): the text written.                         *)

Indent(level) == [n \in 1..(4 * level) |-> SP]

\* json.encoder.ESCAPE_DCT (ensure_ascii), over the characters of the model
EscapeChar(c) ==
    CASE c = QT -> <<BS, QT>>
      [] c = BS -> <<BS, BS>>
      [] c = NL -> <<BS, "n">>
      [] c = "\r" -> <<BS, "r">>
      [] c = "\t" -> <<BS, "t">>
      [] c = "\f" -> <<BS, "f">>
      [] OTHER -> <<c>>

RECURSIVE EscapeAll(_)
EscapeAll(cs) == IF cs = <<>> THEN <<>> ELSE EscapeChar(Head(cs)) \o EscapeAll(Tail(cs))

encode_basestring(cs) == <<QT>> \o EscapeAll(cs) \o <<QT>>

ConstText(n) ==
    CASE n = "null" -> <<"n", "u", "l", "l">>
      [] n = "true" -> <<"t", "r", "u", "e">>
      [] n = "false" -> <<"f", "a", "l", "s", "e">>
      [] n = "NaN" -> <<"N", "a", "N">>
      [] n = "Infinity" -> <<"I", "n", "f", "i", "n", "i", "t", "y">>
      [] n = "-Infinity" -> <<"-", "I", "n", "f", "i", "n", "i", "t", "y">>

\* json.encoder._make_iterencode: _iterencode, _iterencode_list, _iterencode_dict
RECURSIVE iterencode(_, _), iterencode_items(_, _, _)
iterencode(o, level) ==
    CASE o.k = "str" -> encode_basestring(o.v)
      [] o.k = "num" -> o.v
      [] o.k = "const" -> ConstText(o.v)
      [] o.k = "arr" ->
            IF o.v = <<>> THEN <<"[", "]">>
            ELSE <<"[">> \o iterencode_items(o, 1, level + 1)
                 \o <<NL>> \o Indent(level) \o <<"]">>
      [] o.k = "obj" ->
            IF o.v = <<>> THEN <<"{", "}">>
            ELSE <<"{">> \o iterencode_items(o, 1, level + 1)
                 \o <<NL>> \o Indent(level) \o <<"}">>

\* the items of a list or dict from the n-th on, each on a line of its own
iterencode_items(o, n, level) ==
    IF n > Len(o.v) THEN <<>>
    ELSE (IF n > 1 THEN <<",">> ELSE <<>>) \o <<NL>> \o Indent(level)
         \o (IF o.k = "obj"
             THEN encode_basestring(o.v[n][1]) \o <<":", SP>> \o iterencode(o.v[n][2], level)
             ELSE iterencode(o.v[n], level))
         \o iterencode_items(o, n + 1, level)

json_dump(o) == iterencode(o, 0)

----------------------------------------------------------------------------
(* Line 7: input_path.rsplit('.', 1)[0] + '.json'.                         *)

DotJson == <<".", "j", "s", "o", "n">>

\* str.rsplit('.', 1)[0]: what precedes the last ".", the whole string when
\* there is none
rsplit_head(p) ==
    LET D == {i \in 1..Len(p) : p[i] = "."} IN
    IF D = {} THEN p ELSE Slice(p, 1, Max(D) - 1)

OutputPath(p) == rsplit_head(p) \o DotJson

----------------------------------------------------------------------------
(* The script as a process.  Each action is one statement; a with block is *)
(* three (open, body, close).                                              *)

\* line 34, true branch, and line 35
Usage ==
    /\ pc = "main"
    /\ Len(sys_argv) < 2
    /\ stdout' = Append(stdout, [msg |-> "Usage", arg |-> <<>>])
    /\ pc' = "end"
    /\ UNCHANGED <<sys_argv, fs, handles, input_path, output_path, content, data, exc,
                   exit_code, writes, calls, run>>

\* the call written convert_jsonc_to_json(sys.argv[-1])
CallLastArgument ==
    /\ pc = "main"
    /\ ~(Len(sys_argv) < 2)
    /\ input_path' = sys_argv[Len(sys_argv)]
    /\ calls' = Append(calls, sys_argv[Len(sys_argv)])
    /\ pc' = "derive"
    /\ UNCHANGED <<sys_argv, fs, handles, output_path, content, data, exc, stdout,
                   exit_code, writes, run>>

\* line 34, else branch, and the call of line 37
Call ==
    /\ pc = "main"
    /\ ~(Len(sys_argv) < 2)
    /\ input_path' = sys_argv[2]
    /\ calls' = Append(calls, sys_argv[2])
    /\ pc' = "derive"
    /\ UNCHANGED <<sys_argv, fs, handles, output_path, content, data, exc, stdout,
                   exit_code, writes, run>>

\* line 7
DerivePath ==
    /\ pc = "derive"
    /\ output_path' = OutputPath(input_path)
    /\ pc' = "open_r"
    /\ UNCHANGED <<sys_argv, fs, handles, input_path, content, data, exc, stdout,
                   exit_code, writes, calls, run>>

\* line 9: open(input_path, 'r').  A missing file raises FileNotFoundError,
\* which nothing catches: the process ends with status 1, the traceback on
\* stderr.
OpenInput ==
    /\ pc = "open_r"
    /\ \/ /\ input_path \in DOMAIN fs
          /\ handles' = handles \cup {[path |-> input_path, mode |-> "r"]}
          /\ pc' = "read"
          /\ UNCHANGED exit_code
       \/ /\ input_path \notin DOMAIN fs
          /\ exit_code' = 1
          /\ pc' = "done"
          /\ UNCHANGED handles
    /\ UNCHANGED <<sys_argv, fs, input_path, output_path, content, data, exc, stdout,
                   writes, calls, run>>

\* line 10
ReadInput ==
    /\ pc = "read"
    /\ content' = fs[input_path]
    /\ pc' = "close_r"
    /\ UNCHANGED <<sys_argv, fs, handles, input_path, output_path, data, exc, stdout,
                   exit_code, writes, calls, run>>

\* the file read without a with block, and never closed
CloseInputLeaks ==
    /\ pc = "close_r"
    /\ pc' = "sub_block"
    /\ UNCHANGED <<sys_argv, fs, handles, input_path, output_path, content, data, exc,
                   stdout, exit_code, writes, calls, run>>

\* the end of the with block of lines 9-10
CloseInput ==
    /\ pc = "close_r"
    /\ handles' = handles \ {[path |-> input_path, mode |-> "r"]}
    /\ pc' = "sub_block"
    /\ UNCHANGED <<sys_argv, fs, input_path, output_path, content, data, exc, stdout,
                   exit_code, writes, calls, run>>

\* line 13
SubBlock ==
    /\ pc = "sub_block"
    /\ content' = RemoveBlockComments(content)
    /\ pc' = "sub_line"
    /\ UNCHANGED <<sys_argv, fs, handles, input_path, output_path, data, exc, stdout,
                   exit_code, writes, calls, run>>

\* line 16
SubLine ==
    /\ pc = "sub_line"
    /\ content' = RemoveLineComments(content)
    /\ pc' = "sub_comma"
    /\ UNCHANGED <<sys_argv, fs, handles, input_path, output_path, data, exc, stdout,
                   exit_code, writes, calls, run>>

\* line 19
SubComma ==
    /\ pc = "sub_comma"
    /\ content' = RemoveTrailingCommas(content)
    /\ pc' = "loads"
    /\ UNCHANGED <<sys_argv, fs, handles, input_path, output_path, data, exc, stdout,
                   exit_code, writes, calls, run>>

\* lines 23-25 written json.loads(content) inside open(output_path, 'w'):
\* the output file is there, empty, before the text is parsed
LoadsInsideOpen ==
    /\ pc = "loads"
    /\ fs' = [p \in DOMAIN fs \cup {output_path} |->
                 IF p = output_path THEN <<>> ELSE fs[p]]
    /\ LET r == json_loads(content) IN
       IF r.ok
       THEN data' = r.val /\ exc' = exc /\ pc' = "open_w"
       ELSE data' = data /\ exc' = r /\ pc' = "except"
    /\ UNCHANGED <<sys_argv, handles, input_path, output_path, content, stdout,
                   exit_code, writes, calls, run>>

\* line 23, and the except clause of line 29 taking the error
Loads ==
    /\ pc = "loads"
    /\ LET r == json_loads(content) IN
       IF r.ok
       THEN data' = r.val /\ exc' = exc /\ pc' = "open_w"
       ELSE data' = data /\ exc' = r /\ pc' = "except"
    /\ UNCHANGED <<sys_argv, fs, handles, input_path, output_path, content, stdout,
                   exit_code, writes, calls, run>>

\* line 25: open(output_path, 'w') creates the file, or empties the one there
OpenOutput ==
    /\ pc = "open_w"
    /\ fs' = [p \in DOMAIN fs \cup {output_path} |->
                 IF p = output_path THEN <<>> ELSE fs[p]]
    /\ handles' = handles \cup {[path |-> output_path, mode |-> "w"]}
    /\ writes' = Append(writes, output_path)
    /\ pc' = "dump"
    /\ UNCHANGED <<sys_argv, input_path, output_path, content, data, exc, stdout,
                   exit_code, calls, run>>

\* line 26
Dump ==
    /\ pc = "dump"
    /\ fs' = [fs EXCEPT ![output_path] = @ \o json_dump(data)]
    /\ pc' = "close_w"
    /\ UNCHANGED <<sys_argv, handles, input_path, output_path, content, data, exc,
                   stdout, exit_code, writes, calls, run>>

\* the end of the with block of lines 25-26
CloseOutput ==
    /\ pc = "close_w"
    /\ handles' = handles \ {[path |-> output_path, mode |-> "w"]}
    /\ pc' = "print_ok"
    /\ UNCHANGED <<sys_argv, fs, input_path, output_path, content, data, exc, stdout,
                   exit_code, writes, calls, run>>

\* line 28
PrintSuccess ==
    /\ pc = "print_ok"
    /\ stdout' = Append(stdout, [msg |-> "Successfully created", arg |-> output_path])
    /\ pc' = "end"
    /\ UNCHANGED <<sys_argv, fs, handles, input_path, output_path, content, data, exc,
                   exit_code, writes, calls, run>>

\* line 30
PrintError ==
    /\ pc = "except"
    /\ stdout' = Append(stdout, [msg |-> "Error parsing JSON after cleaning", arg |-> exc])
    /\ pc' = "sys_exit"
    /\ UNCHANGED <<sys_argv, fs, handles, input_path, output_path, content, data, exc,
                   exit_code, writes, calls, run>>

\* line 31
SysExit ==
    /\ pc = "sys_exit"
    /\ exit_code' = 1
    /\ pc' = "done"
    /\ UNCHANGED <<sys_argv, fs, handles, input_path, output_path, content, data, exc,
                   stdout, writes, calls, run>>

\* the script runs off its end (after line 35 or line 37): status 0
EndOfScript ==
    /\ pc = "end"
    /\ exit_code' = 0
    /\ pc' = "done"
    /\ UNCHANGED <<sys_argv, fs, handles, input_path, output_path, content, data, exc,
                   stdout, writes, calls, run>>

\* A process that has just been started with the arguments argv (after the
\* script's name) on the files `files`.
Started(argv, files, n) ==
    /\ pc = "main"
    /\ sys_argv = <<<<"p", "y">>>> \o argv
    /\ fs = files
    /\ handles = {}
    /\ input_path = None
    /\ output_path = None
    /\ content = None
    /\ data = NoData
    /\ exc = NoError
    /\ stdout = <<>>
    /\ exit_code = Running
    /\ writes = <<>>
    /\ calls = <<>>
    /\ run = n

\* the output file of a run, given the extension .jsonc
Renamed(p) == p \o <<"c">>

\* The converter is run on its own output: after a run that wrote its
\* output, the file is renamed to end in .jsonc and the script is started
\* on it.
Rerun ==
    /\ pc = "done"
    /\ exit_code = 0
    /\ writes # <<>>
    /\ run < MaxRuns
    /\ LET new == Renamed(output_path)
           files == [p \in (DOMAIN fs \ {output_path}) \cup {new} |->
                        IF p = new THEN fs[output_path] ELSE fs[p]]
       IN /\ pc' = "main"
          /\ sys_argv' = <<sys_argv[1], new>>
          /\ fs' = files
          /\ handles' = {}
          /\ input_path' = None
          /\ output_path' = None
          /\ content' = None
          /\ data' = NoData
          /\ exc' = NoError
          /\ stdout' = <<>>
          /\ exit_code' = Running
          /\ writes' = <<>>
          /\ calls' = <<>>
          /\ run' = run + 1

Next ==
    \/ Usage
    \/ Call
    \/ DerivePath
    \/ OpenInput
    \/ ReadInput
    \/ CloseInput
    \/ SubBlock
    \/ SubLine
    \/ SubComma
    \/ Loads
    \/ OpenOutput
    \/ Dump
    \/ CloseOutput
    \/ PrintSuccess
    \/ PrintError
    \/ SysExit
    \/ EndOfScript
    \/ Rerun

----------------------------------------------------------------------------
(* The inputs.                                                             *)

InFile == <<"c", ".", "j", "s", "o", "n", "c">>
JsonFile == <<"c", ".", "j", "s", "o", "n">>
OldText == <<"o", "l", "d">>

\* one file
File(p, t) == [q \in {p} |-> t]

\* The script started on path p holding text t, beside the files of `others`
\* (each holding OldText).
InitOn(Paths, Texts, Others) ==
    \E p \in Paths, t \in Texts, O \in Others :
        Started(<<p>>, [q \in {p} \cup O |-> IF q = p THEN t ELSE OldText], 1)

\* The other ways to start it: with no argument, with a second argument, on
\* a file that does not exist.
InitOther ==
    \E t \in {<<"1">>, <<"[">>}, O \in {{}, {JsonFile}} :
        \/ Started(<<>>, File(InFile, t), 1)
        \/ Started(<<InFile, JsonFile>>, [q \in {InFile} \cup O |-> IF q = InFile THEN t ELSE OldText], 1)
        \/ Started(<<InFile>>, [q \in O |-> OldText], 1)

RECURSIVE Concat(_)
Concat(ss) == IF ss = <<>> THEN <<>> ELSE Head(ss) \o Concat(Tail(ss))

\* the pieces a document is put together from
Frags == {
    <<"[", "1">>,
    <<",">>,
    <<"]">>,
    <<"{", QT, "a", QT, ":", "1">>,
    <<"}">>,
    <<"/", "/", "x", NL>>,
    <<"/", "*", "x", "*", "/">>,
    <<"N", "a", "N">>,
    <<QT, "/", "/", QT>>,
    <<SP>> }

Docs == {Concat(fs0) : fs0 \in Strings(Frags, MaxFrags)}

Init ==
    \/ InitOn({InFile, JsonFile}, Docs, {{}, {JsonFile}})
    \/ InitOther

Spec == Init /\ [][Next]_vars

\* a few runs that take every path through the script
InitBase ==
    \/ InitOther
    \/ InitOn({InFile, JsonFile}, {<<"1">>, <<"[", "1", ",", "]">>}, {{}})

\* the example of nested block comment delimiters: /* a /* b */ c */
NestedExample ==
    <<"/", "*", SP, "a", SP, "/", "*", SP, "b", SP, "*", "/", SP, "c", SP, "*", "/">>

BlockChars == {"/", "*", NL, "1"}

InitBlock ==
    \/ InitOn({InFile}, Strings(BlockChars, MaxBlockLen) \cup {NestedExample}, {{}})
    \/ InitBase

SpecBlock == InitBlock /\ [][Next]_vars

LineChars == {"/", "*", NL, "1"}

InitLine ==
    \/ InitOn({InFile}, Strings(LineChars, MaxLineLen), {{}})
    \/ InitBase

SpecLine == InitLine /\ [][Next]_vars

\* the example of nested trailing commas: {"a": [1, 2,], "b": {"c": 3,},}
NestedCommas ==
    <<"{", QT, "a", QT, ":", SP, "[", "1", ",", SP, "2", ",", "]", ",", SP,
      QT, "b", QT, ":", SP, "{", QT, "c", QT, ":", SP, "3", ",", "}", ",", "}">>

CommaChars == {",", SP, "]", "}", "1"}

InitComma ==
    \/ InitOn({InFile}, Strings(CommaChars, MaxCommaLen) \cup {NestedCommas}, {{}})
    \/ InitBase

SpecComma == InitComma /\ [][Next]_vars

StringChars == {QT, "/", ",", "]", "[", "1"}

InitString ==
    \/ InitOn({InFile}, Strings(StringChars, MaxStringLen), {{}})
    \/ InitBase

SpecString == InitString /\ [][Next]_vars

PathChars == {".", "/", "c"}

\* what follows the last "/" of a path, and what precedes it ("/" included)
Basename(p) ==
    LET S == {i \in 1..Len(p) : p[i] = "/"} IN
    IF S = {} THEN p ELSE Slice(p, Max(S) + 1, Len(p))

Dirname(p) ==
    LET S == {i \in 1..Len(p) : p[i] = "/"} IN
    IF S = {} THEN <<>> ELSE Slice(p, 1, Max(S))

\* the paths that can name a file: the last component is a name
FilePaths ==
    {p \in Strings(PathChars, MaxPathLen) : Basename(p) \notin {<<>>, <<".">>, <<".", ".">>}}

InitPath ==
    \/ InitOn(FilePaths, {<<"1">>, <<"[">>}, {{}})
    \/ InitBase

SpecPath == InitPath /\ [][Next]_vars

----------------------------------------------------------------------------
(* What the claims speak of.                                               *)

\* t occurs in s
HasSub(s, t) == \E i \in 1..Len(s) : StartsWithAt(s, i, t)

EndsWith(s, t) == Len(s) >= Len(t) /\ Slice(s, Len(s) - Len(t) + 1, Len(s)) = t

\* the characters of s at the positions of K, in order
RECURSIVE Keep(_, _, _)
Keep(s, K, i) ==
    IF i > Len(s) THEN <<>>
    ELSE (IF i \in K THEN <<s[i]>> ELSE <<>>) \o Keep(s, K, i + 1)

HoldsWrite(hs) == \E h \in hs : h.mode = "w"

\* json.loads has returned the value of the cleaned text
ParseSucceeded ==
    /\ exc = NoError
    /\ json_loads(content).ok
    /\ data = json_loads(content).val

SuccessPrinted ==
    /\ Len(stdout) = 1
    /\ stdout[1].msg = "Successfully created"
    /\ stdout[1].arg = output_path

ErrorPrinted ==
    /\ Len(stdout) = 1
    /\ stdout[1].msg = "Error parsing JSON after cleaning"
    /\ stdout[1].arg = json_loads(content)

\* a step of a process (the one step that is not starts the next process)
ProcessStep == pc # "done"

----------------------------------------------------------------------------
(* C1: the output file is opened, created or written only after json.loads *)
(* has succeeded on the cleaned text; a run whose parse fails changes no   *)
(* file: none is created at the output path, and a file that was there     *)
(* keeps its content.                                                      *)
C1_OutputOnlyAfterParse ==
    [][ /\ (ProcessStep /\ (fs' # fs \/ HoldsWrite(handles') \/ writes' # <<>>))
            => /\ ParseSucceeded
               /\ pc \in {"open_w", "dump", "close_w", "print_ok", "end"}
        /\ exc' # NoError
            => (fs' = fs /\ writes' = <<>> /\ ~HoldsWrite(handles')) ]_vars

\* a failed run has ended beside a file at the output path, which is as it was
C1_Witness ==
    /\ pc = "done"
    /\ exit_code = 1
    /\ exc # NoError
    /\ output_path \in DOMAIN fs
    /\ output_path # input_path
    /\ fs[output_path] = OldText

(* C2: when the cleaned text is not valid JSON the run prints the error    *)
(* with the parser's diagnostic, prints no success message and ends with   *)
(* status 1; when it is valid JSON the run prints the success message      *)
(* naming the output path and ends with status 0.                          *)
C2_ExitStatusFollowsValidity ==
    (pc = "done" /\ content # None)
        => IF decode(content, FALSE).ok
           THEN exit_code = 0 /\ SuccessPrinted
           ELSE exit_code = 1 /\ ErrorPrinted

(* C9: started with no argument, the script prints the usage message and   *)
(* ends with status 0 without calling convert_jsonc_to_json: no file is    *)
(* opened, read, created or changed.  Started with arguments, it calls     *)
(* convert_jsonc_to_json once, on the first.                               *)
C9_UsageOrOneCall ==
    [][ /\ Len(sys_argv) < 2
            => /\ fs' = fs
               /\ handles' = {}
               /\ calls' = <<>>
               /\ writes' = <<>>
               /\ content' = None
               /\ pc' = "done" => (exit_code' = 0 /\ Len(stdout') = 1
                                   /\ stdout'[1].msg = "Usage")
        /\ (ProcessStep /\ Len(sys_argv) >= 2)
            => calls' = <<sys_argv[2]>> ]_vars

C9_Witness ==
    /\ pc = "done"
    /\ Len(sys_argv) < 2
    /\ exit_code = 0
    /\ InFile \in DOMAIN fs

\* the run with two arguments has ended
C9_WitnessArgs ==
    /\ pc = "done"
    /\ Len(sys_argv) = 3
    /\ calls = <<sys_argv[2]>>

(* C10: the run writes to no path but the derived output path; the input   *)
(* file is read whole and closed before the output is opened; the input    *)
(* file changes only when the output path is the input path (the input     *)
(* path ends in .json), and then a successful run overwrites it with the   *)
(* serialization of the cleaned text's value, a failed parse leaves it.    *)
C10_WritesOnlyOutput ==
    [][ (ProcessStep /\ Len(sys_argv) >= 2) =>
        /\ \A n \in 1..Len(writes') : writes'[n] = OutputPath(sys_argv[2])
        /\ \A h \in handles' :
              h.mode = "w" => /\ handles' = {h}
                              /\ h.path = OutputPath(sys_argv[2])
                              /\ content' # None
        /\ pc = "read" => content' = fs[input_path]
        /\ \A p \in DOMAIN fs :
              (p \notin DOMAIN fs' \/ fs'[p] # fs[p])
                  => /\ p = OutputPath(sys_argv[2])
                     /\ p = sys_argv[2] => EndsWith(p, DotJson)
        /\ (DOMAIN fs' \ DOMAIN fs) \subseteq {OutputPath(sys_argv[2])}
        /\ output_path' # None
              => (output_path' = input_path' <=> EndsWith(input_path', DotJson))
        /\ (pc = "dump" /\ output_path = input_path)
              => fs'[input_path] = json_dump(json_loads(content).val)
        /\ exc' # NoError => fs' = fs ]_vars

\* a run has overwritten its input in place
C10_Witness ==
    /\ pc = "done"
    /\ exit_code = 0
    /\ run = 1
    /\ writes = <<input_path>>
    /\ fs[input_path] = json_dump(data)
    /\ fs[input_path] # content

----------------------------------------------------------------------------
(* The three substitutions, as the claims put them.                        *)

IsOpen(t, a) == StartsWithAt(t, a, <<"/", "*">>)
IsClose(t, b) == StartsWithAt(t, b, <<"*", "/">>)

\* where a "*/" starts after the "/*" at a
Closes(t, a) == {b \in (a + 2)..Len(t) : IsClose(t, b)}

\* the block comments of t from position `from` on, found left to right:
\* each from a "/*" that has a "*/" after it to the end of the nearest one
RECURSIVE CommentSpans(_, _)
CommentSpans(t, from) ==
    LET A == {a \in from..Len(t) : IsOpen(t, a) /\ Closes(t, a) # {}} IN
    IF A = {} THEN {}
    ELSE LET a == Min(A)
             b == Min(Closes(t, a))
         IN {<<a, b + 1>>} \cup CommentSpans(t, b + 2)

InSpan(S, k) == \E sp \in S : sp[1] <= k /\ k <= sp[2]

\* u is t without its block comments
BlocksRemoved(t, u) ==
    /\ u = Keep(t, {k \in 1..Len(t) : ~InSpan(CommentSpans(t, 1), k)}, 1)
    /\ (\A a \in 1..Len(t) : IsOpen(t, a) => Closes(t, a) = {}) => u = t

\* position k of t is on a line at or after that line's first "//"
InLineComment(t, k) ==
    /\ t[k] # NL
    /\ \E p \in 1..k : /\ StartsWithAt(t, p, <<"/", "/">>)
                       /\ \A m \in p..k : t[m] # NL

Count(t, c) == Cardinality({k \in 1..Len(t) : t[k] = c})

\* u is t with every line cut at its first "//"
LineCommentsRemoved(t, u) ==
    /\ u = Keep(t, {k \in 1..Len(t) : ~InLineComment(t, k)}, 1)
    /\ Count(u, NL) = Count(t, NL)
    /\ ~HasSub(t, <<"/", "/">>) => u = t

\* the first position after c that holds no whitespace, 0 when there is none
NextNonSpace(t, c) ==
    LET N == {j \in (c + 1)..Len(t) : ~IsSpace(t[j])} IN
    IF N = {} THEN 0 ELSE Min(N)

\* the comma at c is followed only by whitespace and then "]" or "}"
IsTrailingComma(t, c) ==
    /\ t[c] = ","
    /\ NextNonSpace(t, c) # 0
    /\ IsCloser(t[NextNonSpace(t, c)])

HasTrailingComma(t) == \E c \in 1..Len(t) : IsTrailingComma(t, c)

\* a comma followed only by whitespace and then a trailing comma
HasDoubledTrailingComma(t) ==
    \E c \in 1..Len(t) : /\ t[c] = ","
                         /\ NextNonSpace(t, c) # 0
                         /\ IsTrailingComma(t, NextNonSpace(t, c))

\* the trailing commas of t and the whitespace between each and its closer
TrailingPart(t) ==
    {k \in 1..Len(t) : \E c \in 1..k : IsTrailingComma(t, c) /\ k < NextNonSpace(t, c)}

\* u is t without its trailing commas (and the whitespace after them)
TrailingCommasRemoved(t, u) ==
    u = Keep(t, (1..Len(t)) \ TrailingPart(t), 1)

\* the input file as the run read it (nothing is written before the parse)
Raw == fs[input_path]

----------------------------------------------------------------------------
(* C3: an input that is valid JSON (so holds no comment) converts, and the *)
(* value written is the value of the input parsed directly, whatever its   *)
(* string literals hold.                                                   *)
C3_ValidJsonUnchanged ==
    (/\ pc = "done"
     /\ run = 1
     /\ content # None
     /\ input_path # output_path
     /\ decode(Raw, FALSE).ok)
        => /\ exit_code = 0
           /\ data = decode(Raw, FALSE).val
           /\ fs[output_path] = json_dump(decode(Raw, FALSE).val)

(* C4: run on the output of a successful run, the converter succeeds and   *)
(* writes the same JSON value again.                                       *)
C4_Idempotent ==
    (pc = "done" /\ run >= 2)
        => /\ exit_code = 0
           /\ json_loads(fs[output_path]) = json_loads(fs[input_path])

(* C5: the output path is the input path cut at its last "." (whole when   *)
(* it has none) with ".json" appended, and it is a sibling of the input:   *)
(* the same directory, the input's file name with its last extension       *)
(* replaced by json.                                                       *)
C5_OutputIsSibling ==
    output_path # None
        => /\ LET D == {i \in 1..Len(input_path) : input_path[i] = "."} IN
              output_path = (IF D = {} THEN input_path
                             ELSE Slice(input_path, 1, Max(D) - 1)) \o DotJson
           /\ Dirname(output_path) = Dirname(input_path)
           /\ LET name == Basename(input_path)
                  D == {i \in 1..Len(name) : name[i] = "."}
              IN Basename(output_path)
                    = (IF D = {} THEN name ELSE Slice(name, 1, Max(D) - 1)) \o DotJson

(* C6, as claimed: step 4 returns its input without the trailing commas    *)
(* (and the whitespace after them), and what it returns has no trailing    *)
(* comma left.                                                             *)
C6_NoTrailingCommaLeft ==
    [][ pc = "sub_comma"
          => /\ TrailingCommasRemoved(content, content')
             /\ ~HasTrailingComma(content') ]_vars

(* C6, amended: step 4 returns its input without the trailing commas (and  *)
(* the whitespace after them); what it returns has a trailing comma        *)
(* exactly when the input had a comma followed only by whitespace and a    *)
(* trailing comma, as in [1,,], of which one pass deletes only the last.   *)
C6_TrailingCommasRemovedOnce ==
    [][ pc = "sub_comma"
          => /\ TrailingCommasRemoved(content, content')
             /\ HasTrailingComma(content') <=> HasDoubledTrailingComma(content) ]_vars

\* the nested example has been cleaned, at every level
C6_Witness ==
    /\ pc = "loads"
    /\ run = 1
    /\ Raw = NestedCommas
    /\ Len(content) = Len(NestedCommas) - 3
    /\ ~HasTrailingComma(content)
    /\ json_loads(content).ok

\* step 3 on one text: every line is cut at its first "//"
LineStepAsClaimed == pc = "sub_line" => LineCommentsRemoved(content, content')

\* the first line of t ends before position FirstLineEnd(t)
FirstLineEnd(t) ==
    LET N == {k \in 1..Len(t) : t[k] = NL} IN
    IF N = {} THEN Len(t) + 1 ELSE Min(N)

\* where the first line's first "//" starts, 0 when it has none
FirstLineComment(t) ==
    LET P == {p \in 1..(FirstLineEnd(t) - 2) : StartsWithAt(t, p, <<"/", "/">>)} IN
    IF P = {} THEN 0 ELSE Min(P)

\* the first line of t has a "//" that no string and no block comment holds
StartsLineComment(t) ==
    /\ FirstLineComment(t) # 0
    /\ LET before == Slice(t, 1, FirstLineComment(t) - 1) IN
       ~HasSub(before, <<"/", "*">>) /\ ~HasSub(before, <<QT>>)

\* the lines of t after the first, "" when there is one line
LaterLines(t) == Slice(t, FirstLineEnd(t) + 1, Len(t))

\* Steps 2 and 3 on a text whose first line has a comment: the lines after
\* it come out as they do without the first line, so the comment takes
\* nothing from them (step 4 deletes only commas and whitespace).
LaterLinesAsClaimed ==
    (pc = "sub_line" /\ StartsLineComment(Raw) /\ FirstLineEnd(Raw) <= Len(Raw))
        => EndsWith(content',
                    <<NL>> \o RemoveLineComments(RemoveBlockComments(LaterLines(Raw))))

(* C7: step 3 cuts every line at its first "//", keeping what precedes it  *)
(* and every line terminator, and leaves a line without "//" as it is; in  *)
(* the whole pipeline a "//" comment takes nothing from the lines after    *)
(* it.                                                                     *)
C7_LineCommentsOnly == [][LineStepAsClaimed /\ LaterLinesAsClaimed]_vars

\* the first half of C7 alone
C7_LineStepAlone == [][LineStepAsClaimed]_vars

(* C8: step 2 removes, left to right, every span from a "/*" to the        *)
(* nearest "*/" after it, across lines; comments do not nest; a "/*" with  *)
(* no "*/" after it stays; the text outside the spans is kept in order.    *)
C8_BlockCommentsRemoved ==
    [][ pc = "sub_block"
          => /\ BlocksRemoved(content, content')
             /\ content = NestedExample
                   => content' = <<SP, "c", SP, "*", "/">> ]_vars

C8_Witness ==
    /\ pc = "sub_line"
    /\ run = 1
    /\ Raw = NestedExample
    /\ content = <<SP, "c", SP, "*", "/">>

====
